---- MODULE Spec2Model ----
(***************************************************************************)
(* Model of the ban-evasion enforcement loop (src/src/bg_task.rs) and of   *)
(* the RCON client it is built on (src/src/utils/rcon.rs).                 *)
(*                                                                         *)
(*   Spec      the enforcement loop: start_background_task and             *)
(*             check_all_servers, one action per await point, against a    *)
(*             ban store and game servers that may fail at any call.       *)
(*   SpecRcon  check_rcon / send_command at the level of the bytes on the  *)
(*             socket: the server writes frames, the client reads them in  *)
(*             chunks of any size.                                         *)
(*   SpecCodec the frame encoding and decoding of send_command as pure     *)
(*             functions of (id, type, body).                              *)
(*                                                                         *)
(* Strings that the code takes apart (status output, tokens, addresses)    *)
(* are sequences of one-character strings; the bytes of the socket are     *)
(* naturals in 0..255.                                                     *)
(***************************************************************************)
EXTENDS Integers, Sequences, FiniteSets, TLC

\* ------------------------------------------------------------------ bounds
\* registered game servers (rows of the servers table)
NumServers == 2
\* player lines of one status output
MaxLines == 2
\* ticks of the enforcement loop that are explored
MaxTicks == 2

\* frames a game server writes during one call
MaxFrames == 2
\* bytes of the body of a frame a server writes
MaxBody == 1
\* socket reads of one call that return data
MaxReads == 3

\* ------------------------------------------------------- string utilities
NL == "\n"
QUOTE == "\""

IsWs(c) == c \in {" ", "\t", "\r", NL}

RECURSIVE SplitOn(_, _)
\* str::split(c): the pieces between the occurrences of c, empty ones kept
SplitOn(s, c) ==
  IF \A i \in 1..Len(s) : s[i] # c THEN <<s>>
  ELSE LET k == CHOOSE i \in 1..Len(s) : s[i] = c /\ \A j \in 1..(i-1) : s[j] # c
       IN  <<SubSeq(s, 1, k-1)>> \o SplitOn(SubSeq(s, k+1, Len(s)), c)

\* str::lines(): split at "\n", a final empty piece dropped, a trailing "\r"
\* of each line dropped
Lines(s) ==
  LET ps == SplitOn(s, NL)
      qs == IF ps[Len(ps)] = <<>> THEN SubSeq(ps, 1, Len(ps)-1) ELSE ps
      strip(l) == IF Len(l) > 0 /\ l[Len(l)] = "\r" THEN SubSeq(l, 1, Len(l)-1) ELSE l
  IN  [i \in 1..Len(qs) |-> strip(qs[i])]

\* str::trim()
Trim(s) ==
  IF \A i \in 1..Len(s) : IsWs(s[i]) THEN <<>>
  ELSE LET a == CHOOSE i \in 1..Len(s) : ~IsWs(s[i]) /\ \A j \in 1..(i-1) : IsWs(s[j])
           b == CHOOSE i \in 1..Len(s) : ~IsWs(s[i]) /\ \A j \in (i+1)..Len(s) : IsWs(s[j])
       IN  SubSeq(s, a, b)

RECURSIVE SplitWhitespace(_)
\* str::split_whitespace(): the maximal runs of non-whitespace characters
SplitWhitespace(s) ==
  LET t == Trim(s)
  IN  IF t = <<>> THEN <<>>
      ELSE IF \A i \in 1..Len(t) : ~IsWs(t[i]) THEN <<t>>
      ELSE LET k == CHOOSE i \in 1..Len(t) : IsWs(t[i]) /\ \A j \in 1..(i-1) : ~IsWs(t[j])
           IN  <<SubSeq(t, 1, k-1)>> \o SplitWhitespace(SubSeq(t, k+1, Len(t)))

RECURSIVE Join(_, _)
\* the lines of a text joined by sep
Join(ls, sep) ==
  IF ls = <<>> THEN <<>>
  ELSE IF Len(ls) = 1 THEN ls[1]
  ELSE ls[1] \o <<sep>> \o Join(Tail(ls), sep)

\* ------------------------------------------------ status-output parsing
SkipLine == [skip |-> TRUE]

\* a variant of UserId that takes the last token before the name
UserIdLastToken(pre_parts) ==
  IF Len(pre_parts) > 0 THEN pre_parts[Len(pre_parts)] ELSE <<>>

\* a variant of UserId without the fallback to the last token
UserIdNoFallback(pre_parts) ==
  LET hits == {i \in 1..Len(pre_parts) : pre_parts[i] = <<"#">> /\ i + 1 <= Len(pre_parts)}
  IN  IF hits # {} THEN pre_parts[(CHOOSE i \in hits : \A j \in hits : i <= j) + 1]
      ELSE <<>>

\* bg_task.rs 65-75: the token after the first "#" token, else the last token
UserId(pre_parts) ==
  LET hits == {i \in 1..Len(pre_parts) : pre_parts[i] = <<"#">> /\ i + 1 <= Len(pre_parts)}
  IN  IF hits # {} THEN pre_parts[(CHOOSE i \in hits : \A j \in hits : i <= j) + 1]
      ELSE IF Len(pre_parts) > 0 THEN pre_parts[Len(pre_parts)]
      ELSE <<>>

\* a variant of BotOrNoIp that lets a bot through
NoIpOnly(steam_id, ip_only) == ip_only = <<>>

\* bg_task.rs 90: if ip_only.is_empty() || steam_id == "BOT" { continue; }
BotOrNoIp(steam_id, ip_only) == ip_only = <<>> \/ steam_id = <<"B", "O", "T">>

\* one line of the status output: SkipLine or the player it names
ParseLine(raw) ==
  LET line == Trim(raw)
  IN  IF Len(line) = 0 \/ line[1] # "#" THEN SkipLine
      ELSE LET parts == SplitOn(line, QUOTE)
           IN  IF Len(parts) < 3 THEN SkipLine
               ELSE LET pre_parts == SplitWhitespace(Trim(parts[1]))
                        userid == UserId(pre_parts)
                        player_name == parts[2]
                        fields == SplitWhitespace(Trim(parts[3]))
                    IN  IF userid = <<"#">> THEN SkipLine
                        ELSE IF Len(fields) < 2 THEN SkipLine
                        ELSE LET steam_id == fields[1]
                                 ip_port == fields[Len(fields)]
                                 ip_only == SplitOn(ip_port, ":")[1]
                             IN  IF BotOrNoIp(steam_id, ip_only)
                                 THEN SkipLine
                                 ELSE [skip |-> FALSE, userid |-> userid,
                                       name |-> player_name, steam_id |-> steam_id,
                                       ip |-> ip_only]

RECURSIVE KeepPlayers(_)
KeepPlayers(ps) ==
  IF ps = <<>> THEN <<>>
  ELSE (IF ps[1].skip THEN <<>> ELSE <<ps[1]>>) \o KeepPlayers(Tail(ps))

\* the players of one status output, in line order
ParsePlayers(output) ==
  LET ls == Lines(output)
  IN  KeepPlayers([i \in 1..Len(ls) |-> ParseLine(ls[i])])


\* ------------------------------------------------ the world of the loop
IpA == <<"1", ".", "1">>
IpB == <<"2", ".", "2">>
SidA == <<"S", ":", "A">>
SidB == <<"S", ":", "B">>
SidX == <<"S", ":", "X">>
SidY == <<"S", ":", "Y">>
\* expires_at: None (models/ban.rs)
NoTime == 0

\* "# <slot> <n> "<name>" <identity> <time> <ip>:<port>"
StatusLine(slot, name, sid, ip) ==
  <<"#", " ">> \o slot \o <<" ", "1", " ", QUOTE>> \o name \o <<QUOTE, " ">> \o sid
    \o <<" ", "0", ":", "1", " ">> \o ip \o <<":", "9">>

\* the header line of the status output: starts with "#", names no player
StatusHeader == <<"#", " ", "i", "d", " ", "n", "a", "m", "e">>

\* a bot that plays from the banned address
BotLine == StatusLine(<<"5">>, <<"b", "t">>, <<"B", "O", "T">>, IpA)
\* a player whose address token has no ip
NoIpLine == StatusLine(<<"7">>, <<"d", "n">>, SidB, <<>>)

LinePool ==
  { StatusLine(<<"3">>, <<"a", "l">>, SidA, IpA),
    StatusLine(<<"4">>, <<"b", "o">>, SidB, IpA),
    BotLine,
    StatusLine(<<"6">>, <<"c", "y">>, SidB, IpB),
    NoIpLine }

RECURSIVE SeqsUpTo(_, _)
\* the sequences over S of length at most n
SeqsUpTo(S, n) ==
  IF n = 0 THEN {<<>>}
  ELSE LET shorter == SeqsUpTo(S, n - 1)
       IN  shorter \cup {Append(q, x) : q \in shorter, x \in S}

\* the texts a server may answer the status command with
StatusTexts == {Join(<<StatusHeader>> \o ls, NL) \o <<NL>> : ls \in SeqsUpTo(LinePool, MaxLines)}

\* rows of the bans table (models/ban.rs); the columns the loop reads or writes
BanRow(id, name, sid, ip, kind, duration, status, admin, expires, server) ==
  [id |-> id, name |-> name, steam_id |-> sid, ip |-> ip, ban_type |-> kind,
   duration |-> duration, status |-> status, admin_name |-> admin,
   expires_at |-> expires, server_id |-> server]

RowIp1 == BanRow(1, <<"x">>, SidX, IpA, "ip", "60", "active", "admin", 5, 0)
RowIp2 == BanRow(2, <<"y">>, SidY, IpA, "ip", "0", "active", "admin", NoTime, 0)
RowAcc == BanRow(3, <<"a", "l">>, SidA, IpB, "account", "0", "active", "admin", NoTime, 0)
RowOld == BanRow(4, <<"o">>, SidY, IpA, "ip", "60", "expired", "admin", 1, 0)

\* the stores a run may start from: create_ban inserts any row an admin
\* posts, so several active IP bans may carry one IP
InitStores == {S \cup {RowOld} : S \in SUBSET {RowIp1, RowIp2, RowAcc}}
FirstFreeId(store) == (CHOOSE n \in {r.id : r \in store} : \A r \in store : r.id <= n) + 1

\* SELECT * FROM servers
Registry == [i \in 1..NumServers |-> [id |-> i]]

VARIABLES
  bans,        \* the bans table
  nextId,      \* its AUTO_INCREMENT counter
  pc,          \* where the loop is: idle, load_bans, load_servers, query,
               \* lookup, kick, insert, sm_ban, done
  ticks,       \* ticks started so far
  ip_bans,     \* check_all_servers: the active IP bans read at tick start
  servers,     \* check_all_servers: the servers read at tick start
  sidx,        \* index of the server being processed
  players,     \* players parsed from its status output
  lidx,        \* index of the player being evaluated
  bidx,        \* index in ip_bans of the ban it is compared with
  tickResult,  \* what check_all_servers returned: none, ok, err_*
  cmdLog,      \* history: the send_command calls of this tick
  insertLog,   \* history: the INSERTs of this tick
  listLog,     \* history: the players listed to this tick, with the server
  startActive, \* history: identities with an active ban when the tick began
  startIpBans, \* history: active IP bans when the tick began
  readLog,     \* history: the reads of the store of this tick
  skipLog      \* history: the BOT lines and the lines without an ip that the
               \* servers listed to this tick

tickVars == <<bans, nextId, pc, ticks, ip_bans, servers, sidx, players, lidx, bidx,
              tickResult, cmdLog, insertLog, listLog, startActive, startIpBans,
              readLog, skipLog>>

\* the state of one RCON call
VARIABLES
  fn,            \* the function called: check_rcon or send_command
  build,         \* debug (overflow checks) or release (wrapping)
  phase,         \* connect, auth, send, cmd, done
  srvOut,        \* bytes the server has written that no read has returned yet
  srvClosed,     \* the server has closed the connection
  wire,          \* the frames the client has written
  authenticated, \* send_command: let mut authenticated
  response_data, \* send_command: let mut response_data
  result,        \* what the call returned: none, ok, err_*, panic
  retText,       \* the text of an Ok(String)
  nreads,        \* reads that returned data
  srvFrames,     \* history: the frames the server has written
  consumed,      \* history: bytes the reads have returned
  authCut,       \* history: the value of consumed when the auth read ended
  aligned,       \* history: every read so far ended at the end of a frame
  gotBytes,      \* history: bytes returned by the reads of the response
  timedOut       \* history: the response read ended by its timeout

rconVars == <<fn, build, phase, srvOut, srvClosed, wire, authenticated,
              response_data, result, retText, nreads, srvFrames, consumed,
              authCut, aligned, gotBytes, timedOut>>

\* the state of one codec run
VARIABLES
  cFrame,   \* the (id, type, body) to encode
  cBuf,     \* its bytes
  cDec      \* what the response loop makes of these bytes in one read

codecVars == <<cFrame, cBuf, cDec>>

\* the state of one run of the status parser
VARIABLES
  pIn,      \* the parts a status line is written from
  pOut      \* the players the line loop keeps of the text

parseVars == <<pIn, pOut>>

\* the state of the loop of start_background_task
VARIABLES
  logged    \* history: the ticks whose error the loop has logged

loopVars == <<logged>>

\* the state of the requests that run next to the loop
VARIABLES
  req,       \* the check_ban request: its parameters and where it is
  adminLog   \* history: the delete_ban and update_ban requests that are done

reqVars == <<req, adminLog>>

RECURSIVE SortById(_)
SortById(S) ==
  IF S = {} THEN <<>>
  ELSE LET r == CHOOSE x \in S : \A y \in S : x.id <= y.id
       IN  <<r>> \o SortById(S \ {r})

\* "SELECT * FROM bans WHERE status = 'active' AND ban_type = 'ip'"
ActiveIpBans(store) ==
  SortById({r \in store : r.status = "active" /\ r.ban_type = "ip"})

\* a variant of ExistingBan that looks at IP bans only
ExistingBanIpOnly(store, sid) ==
  \E r \in store : r.steam_id = sid /\ r.status = "active" /\ r.ban_type = "ip"

\* "SELECT id FROM bans WHERE steam_id = ? AND status = 'active'"
ExistingBan(store, sid) ==
  \E r \in store : r.steam_id = sid /\ r.status = "active"

\* the INSERT of a new catch (bg_task.rs 112-125)
CatchRow(id, player, ban, server) ==
  BanRow(id, player.name, player.steam_id, player.ip, "account", ban.duration,
         "active", "System (BG Monitor)", ban.expires_at, server.id)

\* for ban in &ip_bans { if ban.ip == ip_only { ... } }
IpMatches(ban, player) == ban.ip = player.ip

\* a variant of NextMatch that leaves the loop over the bans at the first ban
\* with the IP of the player
NextMatchFirstBanOnly(ps, bs, l, b) ==
  LET pairs == {<<i, j>> \in (1..Len(ps)) \X (1..Len(bs)) :
                   /\ (i > l \/ (i = l /\ j >= b))
                   /\ IpMatches(bs[j], ps[i])
                   /\ \A k \in 1..(j - 1) : ~IpMatches(bs[k], ps[i])}
  IN  IF pairs = {} THEN <<0, 0>>
      ELSE CHOOSE p \in pairs :
             \A q \in pairs : p[1] < q[1] \/ (p[1] = q[1] /\ p[2] <= q[2])

\* the next (player, ban) pair at or after (l, b) whose IPs match, in the
\* order of the nested loops; <<0, 0>> when none is left
NextMatch(ps, bs, l, b) ==
  LET pairs == {<<i, j>> \in (1..Len(ps)) \X (1..Len(bs)) :
                   /\ (i > l \/ (i = l /\ j >= b))
                   /\ IpMatches(bs[j], ps[i])}
  IN  IF pairs = {} THEN <<0, 0>>
      ELSE CHOOSE p \in pairs :
             \A q \in pairs : p[1] < q[1] \/ (p[1] = q[1] /\ p[2] <= q[2])

\* the loops go on from pair (l, b) of server s: to the next match, else to
\* the next server, else the tick ends with Ok(())
Continue(ps, l, b, s) ==
  LET m == NextMatch(ps, ip_bans, l, b)
  IN  IF m # <<0, 0>>
      THEN /\ pc' = "lookup" /\ lidx' = m[1] /\ bidx' = m[2]
           /\ sidx' = s /\ tickResult' = tickResult
      ELSE IF s < Len(servers)
      THEN /\ pc' = "query" /\ lidx' = 0 /\ bidx' = 0
           /\ sidx' = s + 1 /\ tickResult' = tickResult
      ELSE /\ pc' = "done" /\ lidx' = 0 /\ bidx' = 0
           /\ sidx' = s /\ tickResult' = "ok"

\* one send_command call: the server, the command, and for the status query
\* whether it returned Ok (the results of the other calls are dropped)
Cmd(kind, player, arg, ok) ==
  [server |-> servers[sidx].id, kind |-> kind, userid |-> player.userid,
   who |-> player.steam_id, arg |-> arg, ok |-> (kind # "status" \/ ok)]

NoPlayer == [userid |-> <<>>, steam_id |-> <<>>]

\* one read of the store: the two reads of bg_task.rs 25-38, or the lookup
\* of bg_task.rs 95-100 for the player of a slot of a server
StoreRead(kind, server, userid) ==
  [kind |-> kind, server |-> server, userid |-> userid]

\* the BOT lines and the lines without an ip in a status output of a server
BotOrNoIpLines(text, server) ==
  LET ls == Lines(text)
  IN  {[server |-> server, line |-> ls[i]] :
         i \in {j \in 1..Len(ls) : ls[j] \in {BotLine, NoIpLine}}}

TickInit ==
  /\ bans \in InitStores
  /\ nextId = FirstFreeId(bans)
  /\ pc = "idle"
  /\ ticks = 0
  /\ ip_bans = <<>>
  /\ servers = <<>>
  /\ sidx = 0
  /\ players = <<>>
  /\ lidx = 0
  /\ bidx = 0
  /\ tickResult = "none"
  /\ cmdLog = <<>>
  /\ insertLog = <<>>
  /\ listLog = <<>>
  /\ startActive = {}
  /\ startIpBans = <<>>
  /\ readLog = <<>>
  /\ skipLog = {}

\* a variant of TickFire for a ticker that does not wait for the tick that runs
TickFireWhileRunning ==
  /\ pc # "load_bans"
  /\ ticks < MaxTicks
  /\ pc' = "load_bans"
  /\ ticks' = ticks + 1
  /\ ip_bans' = <<>> /\ servers' = <<>> /\ sidx' = 0
  /\ players' = <<>> /\ lidx' = 0 /\ bidx' = 0
  /\ tickResult' = "none"
  /\ cmdLog' = <<>> /\ insertLog' = <<>> /\ listLog' = <<>>
  /\ startActive' = {r.steam_id : r \in {x \in bans : x.status = "active"}}
  /\ startIpBans' = ActiveIpBans(bans)
  /\ readLog' = <<>> /\ skipLog' = {}
  /\ UNCHANGED <<bans, nextId>>
  /\ UNCHANGED <<rconVars, codecVars, parseVars, loopVars, reqVars>>

\* start_background_task: interval.tick().await, then check_all_servers
TickFire ==
  /\ pc \in {"idle", "done"}
  /\ ticks < MaxTicks
  /\ pc' = "load_bans"
  /\ ticks' = ticks + 1
  /\ ip_bans' = <<>> /\ servers' = <<>> /\ sidx' = 0
  /\ players' = <<>> /\ lidx' = 0 /\ bidx' = 0
  /\ tickResult' = "none"
  /\ cmdLog' = <<>> /\ insertLog' = <<>> /\ listLog' = <<>>
  /\ startActive' = {r.steam_id : r \in {x \in bans : x.status = "active"}}
  /\ startIpBans' = ActiveIpBans(bans)
  /\ readLog' = <<>> /\ skipLog' = {}
  /\ UNCHANGED <<bans, nextId>>
  /\ UNCHANGED <<rconVars, codecVars, parseVars, loopVars, reqVars>>

\* a variant of LoopIteration for a loop that ends at the first tick with an
\* error
LoopEndsOnError ==
  /\ pc \in {"idle", "done"}
  /\ tickResult \in {"none", "ok"}
  /\ ticks < MaxTicks
  /\ pc' = "load_bans"
  /\ ticks' = ticks + 1
  /\ ip_bans' = <<>> /\ servers' = <<>> /\ sidx' = 0
  /\ players' = <<>> /\ lidx' = 0 /\ bidx' = 0
  /\ tickResult' = "none"
  /\ cmdLog' = <<>> /\ insertLog' = <<>> /\ listLog' = <<>>
  /\ startActive' = {r.steam_id : r \in {x \in bans : x.status = "active"}}
  /\ startIpBans' = ActiveIpBans(bans)
  /\ readLog' = <<>> /\ skipLog' = {}
  /\ UNCHANGED <<bans, nextId>>
  /\ logged' = (IF tickResult \in {"none", "ok"} THEN logged ELSE logged + 1)
  /\ UNCHANGED <<rconVars, codecVars, parseVars, reqVars>>

\* bg_task.rs 14-19: one turn of the loop of start_background_task with its
\* log: the error of the last tick, if any, is logged, the ticker is awaited
\* and check_all_servers is called again
LoopIteration ==
  /\ pc \in {"idle", "done"}
  /\ ticks < MaxTicks
  /\ pc' = "load_bans"
  /\ ticks' = ticks + 1
  /\ ip_bans' = <<>> /\ servers' = <<>> /\ sidx' = 0
  /\ players' = <<>> /\ lidx' = 0 /\ bidx' = 0
  /\ tickResult' = "none"
  /\ cmdLog' = <<>> /\ insertLog' = <<>> /\ listLog' = <<>>
  /\ startActive' = {r.steam_id : r \in {x \in bans : x.status = "active"}}
  /\ startIpBans' = ActiveIpBans(bans)
  /\ readLog' = <<>> /\ skipLog' = {}
  /\ UNCHANGED <<bans, nextId>>
  /\ logged' = (IF tickResult \in {"none", "ok"} THEN logged ELSE logged + 1)
  /\ UNCHANGED <<rconVars, codecVars, parseVars, reqVars>>

\* a variant of LoadIpBansOk without the early return on an empty list
LoadIpBansNoShortCircuit(rows) ==
  /\ ip_bans' = rows
  /\ pc' = "load_servers" /\ tickResult' = tickResult

\* the result of the first query when it succeeds
LoadIpBansOk(rows) ==
  /\ ip_bans' = rows
  /\ IF rows = <<>>
     THEN pc' = "done" /\ tickResult' = "ok"
     ELSE pc' = "load_servers" /\ tickResult' = tickResult

\* bg_task.rs 25-33
LoadIpBans ==
  /\ pc = "load_bans"
  /\ \/ LoadIpBansOk(ActiveIpBans(bans))
     \/ /\ pc' = "done" /\ tickResult' = "err_load_bans"
        /\ UNCHANGED ip_bans
  /\ readLog' = Append(readLog, StoreRead("ip_bans", 0, <<>>))
  /\ UNCHANGED <<bans, nextId, ticks, servers, sidx, players, lidx, bidx,
                 cmdLog, insertLog, listLog, startActive, startIpBans, skipLog>>
  /\ UNCHANGED <<rconVars, codecVars, parseVars, loopVars, reqVars>>

\* bg_task.rs 36-41
LoadServers ==
  /\ pc = "load_servers"
  /\ \/ /\ servers' = Registry
        /\ IF Len(Registry) = 0
           THEN pc' = "done" /\ tickResult' = "ok" /\ sidx' = 0
           ELSE pc' = "query" /\ tickResult' = tickResult /\ sidx' = 1
     \/ /\ pc' = "done" /\ tickResult' = "err_load_servers"
        /\ UNCHANGED <<servers, sidx>>
  /\ readLog' = Append(readLog, StoreRead("servers", 0, <<>>))
  /\ UNCHANGED <<bans, nextId, ticks, ip_bans, players, lidx, bidx,
                 cmdLog, insertLog, listLog, startActive, startIpBans, skipLog>>
  /\ UNCHANGED <<rconVars, codecVars, parseVars, loopVars, reqVars>>

\* a variant of StatusFailed that gives the tick up at the failing server
StatusFailedAborts ==
  /\ players' = <<>>
  /\ listLog' = listLog
  /\ pc' = "done" /\ tickResult' = "err_server"
  /\ UNCHANGED <<sidx, lidx, bidx>>

\* Err(_) => continue (bg_task.rs 137)
StatusFailed ==
  /\ players' = <<>>
  /\ listLog' = listLog
  /\ Continue(<<>>, 1, 1, sidx)

\* bg_task.rs 45-90: send_command(status), then the lines of its output
QueryStatus ==
  /\ pc = "query"
  /\ \/ /\ cmdLog' = Append(cmdLog, Cmd("status", NoPlayer, <<>>, FALSE))
        /\ StatusFailed
        /\ UNCHANGED skipLog
     \/ \E text \in StatusTexts :
          LET ps == ParsePlayers(text)
          IN  /\ cmdLog' = Append(cmdLog, Cmd("status", NoPlayer, <<>>, TRUE))
              /\ skipLog' = skipLog \cup BotOrNoIpLines(text, servers[sidx].id)
              /\ players' = ps
              /\ listLog' = listLog \o [i \in 1..Len(ps) |->
                                          [server |-> servers[sidx].id, player |-> ps[i]]]
              /\ Continue(ps, 1, 1, sidx)
  /\ UNCHANGED <<bans, nextId, ticks, ip_bans, servers, insertLog,
                 startActive, startIpBans, readLog>>
  /\ UNCHANGED <<rconVars, codecVars, parseVars, loopVars, reqVars>>

\* what a failed lookup does to the tick: the "?" of bg_task.rs 100
LookupFailed ==
  /\ pc' = "done"
  /\ tickResult' = "err_lookup"

\* bg_task.rs 93-102
Lookup ==
  /\ pc = "lookup"
  /\ \/ /\ pc' = (IF ExistingBan(bans, players[lidx].steam_id) THEN "kick" ELSE "insert")
        /\ tickResult' = tickResult
     \/ LookupFailed
  /\ readLog' = Append(readLog, StoreRead("lookup", servers[sidx].id, players[lidx].userid))
  /\ UNCHANGED <<bans, nextId, ticks, ip_bans, servers, sidx, players, lidx, bidx,
                 cmdLog, insertLog, listLog, startActive, startIpBans, skipLog>>
  /\ UNCHANGED <<rconVars, codecVars, parseVars, loopVars, reqVars>>

\* bg_task.rs 104: the result of the call is dropped
Kick ==
  /\ pc = "kick"
  /\ \E ok \in BOOLEAN :
       cmdLog' = Append(cmdLog, Cmd("kickid", players[lidx], <<>>, ok))
  /\ Continue(players, lidx, bidx + 1, sidx)
  /\ UNCHANGED <<bans, nextId, ticks, ip_bans, servers, players,
                 insertLog, listLog, startActive, startIpBans, readLog, skipLog>>
  /\ UNCHANGED <<rconVars, codecVars, parseVars, loopVars, reqVars>>

\* a variant of InsertBan in which a failed INSERT skips the in-game command
InsertBanSkipOnFailure ==
  /\ pc = "insert"
  /\ LET row == CatchRow(nextId, players[lidx], ip_bans[bidx], servers[sidx])
     IN  \/ /\ bans' = bans \cup {row}
            /\ nextId' = nextId + 1
            /\ insertLog' = Append(insertLog, [row |-> row, ok |-> TRUE])
            /\ pc' = "sm_ban"
            /\ UNCHANGED <<sidx, lidx, bidx, tickResult>>
         \/ /\ insertLog' = Append(insertLog, [row |-> row, ok |-> FALSE])
            /\ Continue(players, lidx, bidx + 1, sidx)
            /\ UNCHANGED <<bans, nextId>>
  /\ UNCHANGED <<ticks, ip_bans, servers, players,
                 cmdLog, listLog, startActive, startIpBans, readLog, skipLog>>
  /\ UNCHANGED <<rconVars, codecVars, parseVars, loopVars, reqVars>>

\* bg_task.rs 106-125
InsertBan ==
  /\ pc = "insert"
  /\ LET row == CatchRow(nextId, players[lidx], ip_bans[bidx], servers[sidx])
     IN  \/ /\ bans' = bans \cup {row}
            /\ nextId' = nextId + 1
            /\ insertLog' = Append(insertLog, [row |-> row, ok |-> TRUE])
         \/ /\ insertLog' = Append(insertLog, [row |-> row, ok |-> FALSE])
            /\ UNCHANGED <<bans, nextId>>
  /\ pc' = "sm_ban"
  /\ UNCHANGED <<ticks, ip_bans, servers, sidx, players, lidx, bidx, tickResult,
                 cmdLog, listLog, startActive, startIpBans, readLog, skipLog>>
  /\ UNCHANGED <<rconVars, codecVars, parseVars, loopVars, reqVars>>

\* a variant of SmBan that sends a kickid command before the sm_ban command
SmBanAfterKick ==
  /\ pc = "sm_ban"
  /\ \E ok \in BOOLEAN :
       cmdLog' = Append(Append(cmdLog, Cmd("kickid", players[lidx], <<>>, ok)),
                        Cmd("sm_ban", players[lidx], ip_bans[bidx].duration, ok))
  /\ Continue(players, lidx, bidx + 1, sidx)
  /\ UNCHANGED <<bans, nextId, ticks, ip_bans, servers, players,
                 insertLog, listLog, startActive, startIpBans, readLog, skipLog>>
  /\ UNCHANGED <<rconVars, codecVars, parseVars, loopVars, reqVars>>

\* bg_task.rs 130-131: the result of the call is dropped
SmBan ==
  /\ pc = "sm_ban"
  /\ \E ok \in BOOLEAN :
       cmdLog' = Append(cmdLog, Cmd("sm_ban", players[lidx], ip_bans[bidx].duration, ok))
  /\ Continue(players, lidx, bidx + 1, sidx)
  /\ UNCHANGED <<bans, nextId, ticks, ip_bans, servers, players,
                 insertLog, listLog, startActive, startIpBans, readLog, skipLog>>
  /\ UNCHANGED <<rconVars, codecVars, parseVars, loopVars, reqVars>>

TickNext ==
  \/ TickFire
  \/ LoadIpBans
  \/ LoadServers
  \/ QueryStatus
  \/ Lookup
  \/ Kick
  \/ InsertBan
  \/ SmBan



\* the ticker fires every 60 s (bg_task.rs 12): three units of the clock in
\* which expires_at is written, so that RowIp1 is in force at the first tick
\* and past its expires_at at the second
TickPeriod == 3
\* NOW() at the ticks of the tick that runs
Clock == TickPeriod * ticks
\* handlers/ban.rs 35: expires_at < NOW(), never true of a NULL expires_at
PastExpiry(ban, now) == ban.expires_at # NoTime /\ ban.expires_at < now

\* ------------------------------------- the requests next to the loop
\* check_ban requests and requests of an administrator served by the model
MaxRequests == 1
MaxAdminOps == 1

NoBan == [id |-> 0]
NoRequest == [pc |-> "idle", steam_id |-> <<>>, ip |-> <<>>, ban |-> NoBan, served |-> 0]

\* the parameters of the check_ban requests
RequestIds == {SidB}
RequestIps == {IpA}

\* the variables of the loop that no request writes
tickOwn == <<pc, ticks, ip_bans, servers, sidx, players, lidx, bidx, tickResult,
             cmdLog, insertLog, listLog, startActive, startIpBans, readLog, skipLog>>

\* "UPDATE bans SET status = ? WHERE id = ?"
SetStatus(store, id, status) ==
  {IF r.id = id THEN [r EXCEPT !.status = status] ELSE r : r \in store}

\* the request has returned its response
Respond == req' = [NoRequest EXCEPT !.served = req.served + 1]

\* handlers/ban.rs 96-159: the check for an active ban of the identity; a ban
\* found past its expires_at is set to expired and the request goes on
CheckBanAccount ==
  /\ req.pc = "idle"
  /\ req.served < MaxRequests
  /\ \E sid \in RequestIds, ip \in RequestIps :
       LET hits == {r \in bans : r.status = "active" /\ r.steam_id = sid}
           goOn == req' = [req EXCEPT !.pc = "ip_check", !.steam_id = sid, !.ip = ip]
       IN  \/ Respond /\ UNCHANGED bans
           \/ hits = {} /\ goOn /\ UNCHANGED bans
           \/ \E b \in hits :
                IF PastExpiry(b, Clock)
                THEN /\ goOn
                     /\ \/ bans' = SetStatus(bans, b.id, "expired")
                        \/ UNCHANGED bans
                ELSE Respond /\ UNCHANGED bans
  /\ UNCHANGED <<nextId, adminLog>>
  /\ UNCHANGED tickOwn
  /\ UNCHANGED <<rconVars, codecVars, parseVars, loopVars>>

\* handlers/ban.rs 162-184 and 237-241: the check for an active IP ban of
\* the address
CheckBanIp ==
  /\ req.pc = "ip_check"
  /\ LET hits == {r \in bans : r.status = "active" /\ r.ip = req.ip /\ r.ban_type = "ip"}
     IN  \/ Respond /\ UNCHANGED bans
         \/ \E b \in hits :
              IF PastExpiry(b, Clock)
              THEN /\ Respond
                   /\ \/ bans' = SetStatus(bans, b.id, "expired")
                      \/ UNCHANGED bans
              ELSE /\ req' = [req EXCEPT !.pc = "insert", !.ban = b]
                   /\ UNCHANGED bans
  /\ UNCHANGED <<nextId, adminLog>>
  /\ UNCHANGED tickOwn
  /\ UNCHANGED <<rconVars, codecVars, parseVars, loopVars>>

AutoBanned == <<"A", "u", "t", "o", "-", "B", "a", "n", "n", "e", "d">>

\* the INSERT of handlers/ban.rs 191-204
AutoBanRow(id, sid, ip, ban) ==
  BanRow(id, AutoBanned, sid, ip, "account", ban.duration, "active",
         "System (IP Match)", ban.expires_at, ban.server_id)

\* handlers/ban.rs 186-236: the ban of the new identity
CheckBanInsert ==
  /\ req.pc = "insert"
  /\ \/ /\ bans' = bans \cup {AutoBanRow(nextId, req.steam_id, req.ip, req.ban)}
        /\ nextId' = nextId + 1
     \/ UNCHANGED <<bans, nextId>>
  /\ Respond
  /\ UNCHANGED adminLog
  /\ UNCHANGED tickOwn
  /\ UNCHANGED <<rconVars, codecVars, parseVars, loopVars>>

\* handlers/ban.rs 389-490 for a super admin and an active IP ban: the row
\* is deleted, and a spawned task sends sm_unban of its identity and of its
\* ip to every server
DeleteBan ==
  /\ Len(adminLog) < MaxAdminOps
  /\ \E b \in {r \in bans : r.status = "active" /\ r.ban_type = "ip"} :
       /\ bans' = bans \ {b}
       /\ adminLog' = Append(adminLog, [op |-> "delete_ban", id |-> b.id,
                                        unban |-> {b.steam_id, b.ip}])
  /\ UNCHANGED <<nextId, req>>
  /\ UNCHANGED tickOwn
  /\ UNCHANGED <<rconVars, codecVars, parseVars, loopVars>>

\* handlers/ban.rs 319-329 for an active IP ban and a payload that holds a
\* status only
UpdateBan ==
  /\ Len(adminLog) < MaxAdminOps
  /\ \E b \in {r \in bans : r.status = "active" /\ r.ban_type = "ip"} :
       /\ bans' = SetStatus(bans, b.id, "unbanned")
       /\ adminLog' = Append(adminLog, [op |-> "update_ban", id |-> b.id, unban |-> {}])
  /\ UNCHANGED <<nextId, req>>
  /\ UNCHANGED tickOwn
  /\ UNCHANGED <<rconVars, codecVars, parseVars, loopVars>>

\* the loop, one check_ban request at a time and the administrator
ConcNext ==
  \/ TickFire
  \/ LoadIpBans
  \/ LoadServers
  \/ QueryStatus
  \/ Lookup
  \/ Kick
  \/ InsertBan
  \/ SmBan
  \/ CheckBanAccount
  \/ CheckBanIp
  \/ CheckBanInsert
  \/ DeleteBan
  \/ UpdateBan

\* ------------------------------------------------ the claims on the loop
Listed(sid) == {i \in DOMAIN listLog : listLog[i].player.steam_id = sid}
Cmds(kind, sid) == {i \in DOMAIN cmdLog : cmdLog[i].kind = kind /\ cmdLog[i].who = sid}
Inserts(sid) == {i \in DOMAIN insertLog : insertLog[i].row.steam_id = sid}
TickEndedOk == pc = "done" /\ tickResult = "ok"

\* a player listed once in this tick from the IP of the only active IP ban,
\* whose identity had no active ban
NewCatchListing(i) ==
  /\ Len(startIpBans) = 1
  /\ listLog[i].player.ip = startIpBans[1].ip
  /\ listLog[i].player.steam_id \notin startActive
  /\ Cardinality(Listed(listLog[i].player.steam_id)) = 1

\* the row of a catch: an account ban that inherits duration and expires_at
InheritedRow(row, player, ban, server) ==
  /\ row.ban_type = "account" /\ row.status = "active"
  /\ row.steam_id = player.steam_id /\ row.ip = player.ip /\ row.name = player.name
  /\ row.duration = ban.duration /\ row.expires_at = ban.expires_at
  /\ row.server_id = server

\* C1 as claimed: with one active IP ban, a player listed from its IP whose
\* identity has no active ban gets exactly one insert (an account ban with the
\* IP ban's duration and expires_at), exactly one kick command and exactly one
\* ban command, at the server that listed it.
C1_InsertKickAndBan ==
  TickEndedOk =>
    \A i \in DOMAIN listLog :
      NewCatchListing(i) =>
        LET p == listLog[i].player
        IN  /\ Cardinality(Inserts(p.steam_id)) = 1
            /\ Cardinality(Cmds("kickid", p.steam_id)) = 1
            /\ Cardinality(Cmds("sm_ban", p.steam_id)) = 1

\* C1 amended: such a player gets no kick command at all, at most one insert
\* and at most one sm_ban command; in a tick that runs to its end, exactly one
\* insert (an account ban with the IP ban's duration and expires_at) and
\* exactly one sm_ban command, sent to the server that listed the player with
\* the player's slot and the IP ban's duration.
C1_InsertAndSmBanOnly ==
  \A i \in DOMAIN listLog :
    NewCatchListing(i) =>
      LET p == listLog[i].player
          b == startIpBans[1]
          s == listLog[i].server
      IN  /\ Cmds("kickid", p.steam_id) = {}
          /\ Cardinality(Inserts(p.steam_id)) <= 1
          /\ Cardinality(Cmds("sm_ban", p.steam_id)) <= 1
          /\ \A k \in Inserts(p.steam_id) : InheritedRow(insertLog[k].row, p, b, s)
          /\ \A k \in Cmds("sm_ban", p.steam_id) :
               /\ cmdLog[k].server = s
               /\ cmdLog[k].userid = p.userid
               /\ cmdLog[k].arg = b.duration
          /\ TickEndedOk =>
               /\ Cardinality(Inserts(p.steam_id)) = 1
               /\ Cardinality(Cmds("sm_ban", p.steam_id)) = 1

\* C1 witness: a tick ran to its end after it caught such a player
C1_Witness ==
  /\ TickEndedOk
  /\ \E i \in DOMAIN listLog :
       /\ NewCatchListing(i)
       /\ \E k \in Inserts(listLog[i].player.steam_id) : insertLog[k].ok
       /\ Cmds("sm_ban", listLog[i].player.steam_id) # {}

\* C2 as claimed: a player listed once from a banned IP whose identity already
\* has an active ban gets exactly one kick command, no insert and no ban
\* command, however many active IP bans carry that IP.
C2_OneKickOnly ==
  TickEndedOk =>
    \A i \in DOMAIN listLog :
      LET p == listLog[i].player
      IN  ( /\ \E j \in DOMAIN startIpBans : startIpBans[j].ip = p.ip
            /\ p.steam_id \in startActive
            /\ Cardinality(Listed(p.steam_id)) = 1 )
          => /\ Cardinality(Cmds("kickid", p.steam_id)) = 1
             /\ Inserts(p.steam_id) = {}
             /\ Cmds("sm_ban", p.steam_id) = {}

\* C3: after a successful insert for an identity, the tick makes no further
\* insert for that identity.
C3_NoSecondInsert ==
  \A i, j \in DOMAIN insertLog :
    (i < j /\ insertLog[i].row.steam_id = insertLog[j].row.steam_id)
      => ~insertLog[i].ok

\* C3 witness: an identity was caught and inserted, and was evaluated again
\* later in the same tick (listed by a second server), which kicked it
C3_Witness ==
  /\ TickEndedOk
  /\ \E i, j \in DOMAIN listLog :
       /\ i < j
       /\ listLog[i].player.steam_id = listLog[j].player.steam_id
       /\ listLog[i].server # listLog[j].server
       /\ \E k \in Inserts(listLog[i].player.steam_id) : insertLog[k].ok
       /\ \E c \in Cmds("kickid", listLog[i].player.steam_id) :
            cmdLog[c].server = listLog[j].server

\* C4: a tick that starts with no active IP ban in the store calls
\* send_command for no server (no connection, no status query, no other
\* command), inserts nothing, and returns Ok unless the read itself failed.
C4_NoIpBanNoQuery ==
  (ticks > 0 /\ startIpBans = <<>>) =>
    /\ cmdLog = <<>>
    /\ insertLog = <<>>
    /\ pc \in {"load_bans", "done"}
    /\ pc = "done" => tickResult \in {"ok", "err_load_bans"}

\* C4 witness: such a tick ended with Ok
C4_Witness ==
  /\ ticks > 0 /\ startIpBans = <<>>
  /\ \E r \in bans : r.ban_type = "ip"
  /\ TickEndedOk

StatusCalls(k) == {i \in DOMAIN cmdLog : cmdLog[i].kind = "status" /\ cmdLog[i].server = k}

SmBanCalls == {i \in DOMAIN cmdLog : cmdLog[i].kind = "sm_ban"}

RECURSIVE Nth(_, _)
\* the n-th smallest member of a set of numbers
Nth(S, n) ==
  LET m == CHOOSE x \in S : \A y \in S : x <= y
  IN  IF n = 1 THEN m ELSE Nth(S \ {m}, n - 1)

\* C6: every insert of a catch, failed or not, is followed by the sm_ban
\* command for that player at that server before the loop does anything else,
\* and the loop then goes on as after a successful insert.
C6_InsertFailureStillBans ==
  /\ Cardinality(SmBanCalls) = Len(insertLog) - (IF pc = "sm_ban" THEN 1 ELSE 0)
  /\ \A k \in 1..Cardinality(SmBanCalls) :
       LET c == cmdLog[Nth(SmBanCalls, k)]
       IN  /\ c.who = insertLog[k].row.steam_id
           /\ c.server = insertLog[k].row.server_id
           /\ c.arg = insertLog[k].row.duration
  /\ (pc \in {"lookup", "kick", "insert"} /\ insertLog # <<>>) =>
       Cardinality(SmBanCalls) = Len(insertLog)
  /\ (TickEndedOk /\ ip_bans # <<>>) =>
       \A k \in 1..Len(Registry) : StatusCalls(k) # {}

\* C6 witness: an insert failed, its sm_ban was sent, and the tick went on to
\* catch another player and to query the next server
C6_Witness ==
  /\ TickEndedOk
  /\ Len(insertLog) >= 2
  /\ ~insertLog[1].ok
  /\ insertLog[1].row.server_id = 1
  /\ Cardinality(SmBanCalls) = Len(insertLog)
  /\ \E i \in StatusCalls(2) : cmdLog[i].ok

\* the slots of the BOT line and of the line without an ip
BotOrNoIpSlots == {<<"5">>, <<"7">>}

\* C13: a line whose identity is BOT or whose address has no ip leads to no
\* store lookup, no insert, no kick command and no ban command, also when the
\* line names a banned IP: the player of such a line is never evaluated.
C13_BotOrNoIpNeverEvaluated ==
  /\ \A i \in DOMAIN readLog :
       readLog[i].kind = "lookup" => readLog[i].userid \notin BotOrNoIpSlots
  /\ \A i \in DOMAIN insertLog :
       /\ insertLog[i].row.steam_id # <<"B", "O", "T">>
       /\ insertLog[i].row.ip # <<>>
  /\ \A i \in DOMAIN cmdLog :
       /\ cmdLog[i].userid \notin BotOrNoIpSlots
       /\ cmdLog[i].who # <<"B", "O", "T">>
  /\ pc \in {"lookup", "kick", "insert", "sm_ban"} =>
       players[lidx].userid \notin BotOrNoIpSlots

\* C13 witness: a server listed a bot at the banned IP and a line without an
\* ip next to nothing else, and the tick ran to its end after it had caught a
\* player of the other server
C13_Witness ==
  /\ TickEndedOk
  /\ skipLog = {[server |-> 1, line |-> BotLine], [server |-> 1, line |-> NoIpLine]}
  /\ \A i \in DOMAIN listLog : listLog[i].server = 2
  /\ \E i \in DOMAIN startIpBans : startIpBans[i].ip = IpA
  /\ Len(insertLog) = 1
  /\ Len(readLog) = 3

\* C19 as claimed: a tick that began with active IP bans and ended without a
\* failure of the two reads of its start (the active IP bans, the server
\* list) has queried every registered server.
C19_OnlySnapshotFailureEndsTick ==
  (/\ pc = "done"
   /\ ip_bans # <<>>
   /\ tickResult \notin {"err_load_bans", "err_load_servers"}) =>
    \A k \in 1..Len(Registry) : StatusCalls(k) # {}

\* the lookups of the tick, and the pairs of a listed player and an active IP
\* ban of the tick with the IP of that player
Lookups == {i \in DOMAIN readLog : readLog[i].kind = "lookup"}
MatchingPairs ==
  {<<i, j>> \in (DOMAIN listLog) \X (DOMAIN ip_bans) :
     IpMatches(ip_bans[j], listLog[i].player)}

C27_OnlyBansInForce ==
  pc \in {"kick", "insert", "sm_ban"} => ~PastExpiry(ip_bans[bidx], Clock)


\* ================================================================ RCON
\* ---------------------------------------------------------- the codec
\* let mut read_buf = [0u8; 4096]
ReadBufSize == 4096
\* check_rcon: let req_id = 999
CheckReqId == 999
\* send_command: let req_id = 1
SendReqId == 1
\* send_command: let cmd_id = 42
CmdId == 42
\* SERVERDATA_AUTH
TypeAuth == 3
\* SERVERDATA_AUTH_RESPONSE
TypeAuthResponse == 2
\* SERVERDATA_RESPONSE_VALUE
TypeResponseValue == 0
\* rcon.rs 170: SERVERDATA_EXECCOMMAND
TypeExecCommand == 2

\* 2^31; i32 values are kept as integers in -2^31 .. 2^31 - 1
TwoTo31Minus1 == 2147483647

\* write_i32::<LittleEndian>: the four bytes of a 32-bit value, low byte
\* first (two's complement: a negative value sets the top bit)
LE32(v) ==
  LET w == IF v < 0 THEN (v + TwoTo31Minus1) + 1 ELSE v
      top == (w \div 16777216) % 128
  IN  <<w % 256, (w \div 256) % 256, (w \div 65536) % 256,
        IF v < 0 THEN top + 128 ELSE top>>

\* read_i32::<LittleEndian> at offset pos (from 0) of buf
ReadI32(buf, pos) ==
  LET low == buf[pos+1] + 256 * buf[pos+2] + 65536 * buf[pos+3]
               + 16777216 * (buf[pos+4] % 128)
  IN  IF buf[pos+4] >= 128 THEN (low - TwoTo31Minus1) - 1 ELSE low

\* (i32) as usize: a negative value becomes one above 2^31, larger than any
\* number of bytes a read returns
ExceedsUsize(v, avail) == v < 0 \/ avail < v

\* a variant of EncodeFrame whose size field counts the size field itself
EncodeFrameCountsSizeField(id, type, body) ==
  LE32(4 + 4 + 4 + Len(body) + 1 + 1) \o LE32(id) \o LE32(type) \o body \o <<0, 0>>

\* rcon.rs 113-121 and 172-180: size, id, type, body, two null bytes
EncodeFrame(id, type, body) ==
  LE32(4 + 4 + Len(body) + 1 + 1) \o LE32(id) \o LE32(type) \o body \o <<0, 0>>

\* String::from_utf8_lossy on bytes of which none at or above 128 is part of
\* a valid sequence (the model's only such bytes are 0xFF and a lone 0xE7):
\* each becomes U+FFFD
Lossy(bytes) == [i \in 1..Len(bytes) |-> IF bytes[i] < 128 THEN bytes[i] ELSE 65533]

\* The head of one frame at offset pos of the n bytes of a read, as the three
\* read loops take it (rcon.rs 57-78, 136-147, 201-207 and 231-232):
\*   more   the loop breaks and the next read starts over
\*   panic  read_i32(..).unwrap() past the end of the read, or size - 8 below
\*          zero in a build with overflow checks
\*   frame  id and type, and the offset the cursor is set to
FrameHead(buf, pos, checked) ==
  LET n == Len(buf)
  IN  IF n - pos < 4 THEN [st |-> "more"]
      ELSE LET size == ReadI32(buf, pos)
               p == pos + 4
           IN  IF ExceedsUsize(size, n - p) THEN [st |-> "more"]
               ELSE IF n - p < 8 THEN [st |-> "panic"]
               ELSE IF size < 8 /\ checked THEN [st |-> "panic"]
               ELSE [st |-> "frame", size |-> size, id |-> ReadI32(buf, p),
                     type |-> ReadI32(buf, p + 4), body |-> p + 8,
                     next |-> p + size]

\* a variant of AuthDecision that does not look at the frame type
AuthDecisionAnyType(id, type, req_id) ==
  IF id = -1 THEN "auth_failed"
  ELSE IF id = req_id THEN "ok"
  ELSE "none"

\* a variant of AuthDecision that takes every id but -1 for the id sent
AuthDecisionAnyId(id, type, req_id) ==
  IF type = TypeAuthResponse
  THEN IF id = -1 THEN "auth_failed" ELSE "ok"
  ELSE "none"

\* rcon.rs 80-86 and 149-156
AuthDecision(id, type, req_id) ==
  IF type = TypeAuthResponse
  THEN IF id = -1 THEN "auth_failed"
       ELSE IF id = req_id THEN "ok"
       ELSE "none"
  ELSE "none"

RECURSIVE AuthParse(_, _, _, _)
\* the inner loop of the auth read (rcon.rs 56-87, 135-157) over one read:
\* ok, auth_failed, panic, or more (read again)
AuthParse(buf, pos, req_id, checked) ==
  IF pos >= Len(buf) THEN "more"
  ELSE LET h == FrameHead(buf, pos, checked)
       IN  IF h.st # "frame" THEN h.st
           ELSE LET d == AuthDecision(h.id, h.type, req_id)
                IN  IF d # "none" THEN d
                    ELSE AuthParse(buf, h.next, req_id, checked)

\* a variant of BodyLen that keeps the first of the two trailing null bytes
BodyLenOffByOne(size) == IF size >= 10 THEN size - 9 ELSE 0

\* rcon.rs 220
BodyLen(size) == IF size >= 10 THEN size - 10 ELSE 0

\* rcon.rs 222-227: let chunk = &read_buf[start..end]
Chunk(buf, h) == SubSeq(buf, h.body + 1, h.body + BodyLen(h.size))

RECURSIVE CmdParse(_, _, _, _)
\* the inner loop of the response read (rcon.rs 200-238) over one read: the
\* text accumulated, or a panic
CmdParse(buf, pos, acc, checked) ==
  IF pos >= Len(buf) THEN [st |-> "more", text |-> acc]
  ELSE LET h == FrameHead(buf, pos, checked)
       IN  IF h.st = "more" THEN [st |-> "more", text |-> acc]
           ELSE IF h.st = "panic" THEN [st |-> "panic", text |-> acc]
           ELSE IF h.size < 9 /\ checked THEN [st |-> "panic", text |-> acc]
           ELSE IF h.body + BodyLen(h.size) > Len(buf) THEN [st |-> "more", text |-> acc]
           ELSE CmdParse(buf, h.next, acc \o Lossy(Chunk(buf, h)), checked)


\* a variant of Finish that fails on every timeout
FinishErrOnTimeout(text, timeout) ==
  IF timeout THEN [result |-> "err_cmd_timeout", text |-> <<>>]
  ELSE [result |-> "ok", text |-> text]

\* a variant of Finish that takes an empty response for a failure
FinishErrOnEmpty(text, timeout) ==
  IF text # <<>> THEN [result |-> "ok", text |-> text]
  ELSE [result |-> "err_cmd_timeout", text |-> <<>>]

\* rcon.rs 253-262: what send_command returns after the response read
Finish(text, timeout) ==
  IF text # <<>> THEN [result |-> "ok", text |-> text]
  ELSE IF timeout THEN [result |-> "err_cmd_timeout", text |-> <<>>]
  ELSE [result |-> "ok", text |-> <<>>]

\* ------------------------------------------------ one call, byte by byte
Min(a, b) == IF a < b THEN a ELSE b

ReqId(f) == IF f = "check_rcon" THEN CheckReqId ELSE SendReqId

\* the password and the command of the call
Password == <<112>>
Command == <<115>>

\* frames a server may write: any mix of auth responses and response values
ServerFrames(f) ==
  [id : {-1, ReqId(f), CmdId},
   type : {TypeResponseValue, TypeAuthResponse},
   body : SeqsUpTo({97}, MaxBody)]

WireOf(f) == EncodeFrame(f.id, f.type, f.body)

RECURSIVE Ends(_)
\* the offsets in the server's byte stream at which its frames end
Ends(fs) ==
  IF fs = <<>> THEN <<>>
  ELSE LET before == Ends(SubSeq(fs, 1, Len(fs) - 1))
           start == IF before = <<>> THEN 0 ELSE before[Len(before)]
       IN  Append(before, start + Len(WireOf(fs[Len(fs)])))

RconInit ==
  /\ fn \in {"check_rcon", "send_command"}
  /\ build \in {"debug", "release"}
  /\ phase = "connect"
  /\ srvOut = <<>>
  /\ srvClosed = FALSE
  /\ wire = <<>>
  /\ authenticated = FALSE
  /\ response_data = <<>>
  /\ result = "none"
  /\ retText = <<>>
  /\ nreads = 0
  /\ srvFrames = <<>>
  /\ consumed = 0
  /\ authCut = 0
  /\ aligned = TRUE
  /\ gotBytes = 0
  /\ timedOut = FALSE

Return(r) ==
  /\ phase' = "done"
  /\ result' = r

\* rcon.rs 9-40 and 100-123: connect within 5 s, write the Auth frame
Connect ==
  /\ phase = "connect"
  /\ \/ /\ wire' = <<EncodeFrame(ReqId(fn), TypeAuth, Password)>>
        /\ phase' = "auth"
        /\ UNCHANGED result
     \/ Return("err_connect_timeout") /\ UNCHANGED wire
     \/ Return("err_connect") /\ UNCHANGED wire
     \/ Return("err_write") /\ UNCHANGED wire
  /\ UNCHANGED <<fn, build, srvOut, srvClosed, authenticated, response_data,
                 retText, nreads, srvFrames, consumed, authCut, aligned,
                 gotBytes, timedOut>>
  /\ UNCHANGED <<tickVars, codecVars, parseVars, loopVars, reqVars>>

\* the server writes one more frame
ServerSend ==
  /\ phase \in {"auth", "send", "cmd"}
  /\ ~srvClosed
  /\ Len(srvFrames) < MaxFrames
  /\ \E f \in ServerFrames(fn) :
       /\ srvOut' = srvOut \o WireOf(f)
       /\ srvFrames' = Append(srvFrames, f)
  /\ UNCHANGED <<fn, build, phase, srvClosed, wire, authenticated, response_data,
                 result, retText, nreads, consumed, authCut, aligned, gotBytes,
                 timedOut>>
  /\ UNCHANGED <<tickVars, codecVars, parseVars, loopVars, reqVars>>

\* the server closes the connection
ServerClose ==
  /\ phase \in {"auth", "send", "cmd"}
  /\ ~srvClosed
  /\ srvClosed' = TRUE
  /\ UNCHANGED <<fn, build, phase, srvOut, wire, authenticated, response_data,
                 result, retText, nreads, srvFrames, consumed, authCut, aligned,
                 gotBytes, timedOut>>
  /\ UNCHANGED <<tickVars, codecVars, parseVars, loopVars, reqVars>>

\* stream.read(&mut read_buf) returns n bytes
Take(n) ==
  /\ srvOut' = SubSeq(srvOut, n + 1, Len(srvOut))
  /\ consumed' = consumed + n
  /\ nreads' = nreads + 1
  /\ aligned' = (aligned /\ \E i \in DOMAIN srvFrames : Ends(srvFrames)[i] = consumed + n)

\* rcon.rs 50-89 and 130-160: one read of the auth loop and its frames
AuthRead ==
  /\ phase = "auth"
  /\ srvOut # <<>>
  /\ nreads < MaxReads
  /\ \E n \in 1..Min(Len(srvOut), ReadBufSize) :
       LET buf == SubSeq(srvOut, 1, n)
           r == IF n < 4 THEN "closed"
                ELSE AuthParse(buf, 0, ReqId(fn), build = "debug")
       IN  /\ Take(n)
           /\ CASE r = "more" ->
                     UNCHANGED <<phase, result, authenticated, authCut>>
                [] r = "ok" ->
                     /\ authCut' = consumed + n
                     /\ IF fn = "check_rcon"
                        THEN Return("ok") /\ UNCHANGED authenticated
                        ELSE /\ authenticated' = TRUE
                             /\ phase' = "send"
                             /\ UNCHANGED result
                [] r = "auth_failed" ->
                     Return("err_auth_failed") /\ UNCHANGED <<authenticated, authCut>>
                [] r = "closed" ->
                     Return("err_closed") /\ UNCHANGED <<authenticated, authCut>>
                [] r = "panic" ->
                     Return("panic") /\ UNCHANGED <<authenticated, authCut>>
  /\ UNCHANGED <<fn, build, srvClosed, wire, response_data, retText, srvFrames,
                 gotBytes, timedOut>>
  /\ UNCHANGED <<tickVars, codecVars, parseVars, loopVars, reqVars>>

\* the server has closed: the auth read meets the end of the stream
\* (n = 0 < 4) or a socket error
AuthEnd ==
  /\ phase = "auth"
  /\ srvClosed
  /\ \/ srvOut = <<>> /\ Return("err_closed")
     \/ Return("err_io")
  /\ UNCHANGED <<fn, build, srvOut, srvClosed, wire, authenticated, response_data,
                 retText, nreads, srvFrames, consumed, authCut, aligned,
                 gotBytes, timedOut>>
  /\ UNCHANGED <<tickVars, codecVars, parseVars, loopVars, reqVars>>

\* rcon.rs 94 and 165: the 5 s of the auth read are over
AuthTimeout ==
  /\ phase = "auth"
  /\ Return("err_auth_timeout")
  /\ UNCHANGED <<fn, build, srvOut, srvClosed, wire, authenticated, response_data,
                 retText, nreads, srvFrames, consumed, authCut, aligned,
                 gotBytes, timedOut>>
  /\ UNCHANGED <<tickVars, codecVars, parseVars, loopVars, reqVars>>

\* rcon.rs 169-182: write the ExecCommand frame
SendCmd ==
  /\ phase = "send"
  /\ \/ /\ wire' = Append(wire, EncodeFrame(CmdId, TypeExecCommand, Command))
        /\ phase' = "cmd"
        /\ UNCHANGED result
     \/ Return("err_write") /\ UNCHANGED wire
  /\ UNCHANGED <<fn, build, srvOut, srvClosed, authenticated, response_data,
                 retText, nreads, srvFrames, consumed, authCut, aligned,
                 gotBytes, timedOut>>
  /\ UNCHANGED <<tickVars, codecVars, parseVars, loopVars, reqVars>>

\* rcon.rs 193-250: one read of the response loop and its frames
CmdRead ==
  /\ phase = "cmd"
  /\ srvOut # <<>>
  /\ nreads < MaxReads
  /\ \E n \in 1..Min(Len(srvOut), ReadBufSize) :
       LET r == CmdParse(SubSeq(srvOut, 1, n), 0, response_data, build = "debug")
       IN  /\ Take(n)
           /\ gotBytes' = gotBytes + n
           /\ IF r.st = "panic"
              THEN Return("panic") /\ UNCHANGED response_data
              ELSE response_data' = r.text /\ UNCHANGED <<phase, result>>
  /\ UNCHANGED <<fn, build, srvClosed, wire, authenticated, retText, srvFrames,
                 authCut, timedOut>>
  /\ UNCHANGED <<tickVars, codecVars, parseVars, loopVars, reqVars>>

Returns(f) ==
  /\ phase' = "done"
  /\ result' = f.result
  /\ retText' = f.text

\* rcon.rs 195 and 197: the server has closed, the response read meets the
\* end of the stream or a socket error, and the loop breaks
CmdEnd ==
  /\ phase = "cmd"
  /\ srvClosed
  /\ Returns(Finish(response_data, FALSE))
  /\ UNCHANGED <<fn, build, srvOut, srvClosed, wire, authenticated, response_data,
                 nreads, srvFrames, consumed, authCut, aligned, gotBytes, timedOut>>
  /\ UNCHANGED <<tickVars, codecVars, parseVars, loopVars, reqVars>>

\* a variant of CmdTimeout for a response read without the 3 s bound: the
\* call goes on waiting
CmdTimeoutNever ==
  /\ phase = "cmd"
  /\ UNCHANGED <<tickVars, rconVars, codecVars, parseVars, loopVars, reqVars>>

\* rcon.rs 192 and 251: the 3 s of the response read are over
CmdTimeout ==
  /\ phase = "cmd"
  /\ timedOut' = TRUE
  /\ Returns(Finish(response_data, TRUE))
  /\ UNCHANGED <<fn, build, srvOut, srvClosed, wire, authenticated, response_data,
                 nreads, srvFrames, consumed, authCut, aligned, gotBytes>>
  /\ UNCHANGED <<tickVars, codecVars, parseVars, loopVars, reqVars>>

RconNext ==
  \/ Connect
  \/ ServerSend
  \/ ServerClose
  \/ AuthRead
  \/ AuthEnd
  \/ AuthTimeout
  \/ SendCmd
  \/ CmdRead
  \/ CmdEnd
  \/ CmdTimeout


\* ------------------------------------------- the codec as pure functions
\* bytes of a body that is encoded and decoded again
MaxCodecBody == 2

CodecIds == {-1, 0, SendReqId, CmdId, CheckReqId}
CodecTypes == {TypeResponseValue, TypeAuthResponse, TypeAuth}
CodecBodies == SeqsUpTo({0, 97, 98}, MaxCodecBody)

CodecInit ==
  /\ cFrame \in [id : CodecIds, type : CodecTypes, body : CodecBodies]
  /\ cBuf = <<>>
  /\ cDec = [st |-> "none"]

CodecEncode ==
  /\ cBuf = <<>>
  /\ cBuf' = EncodeFrame(cFrame.id, cFrame.type, cFrame.body)
  /\ UNCHANGED <<cFrame, cDec>>
  /\ UNCHANGED <<tickVars, rconVars, parseVars, loopVars, reqVars>>

\* the first frame of a read, as the response loop takes it
DecodeFrame(buf, checked) ==
  LET h == FrameHead(buf, 0, checked)
  IN  IF h.st # "frame" THEN [st |-> h.st]
      ELSE [st |-> "frame", id |-> h.id, type |-> h.type,
            body |-> Lossy(Chunk(buf, h)), consumed |-> h.next]

CodecDecode ==
  /\ cBuf # <<>>
  /\ cDec.st = "none"
  /\ \E checked \in BOOLEAN : cDec' = DecodeFrame(cBuf, checked)
  /\ UNCHANGED <<cFrame, cBuf>>
  /\ UNCHANGED <<tickVars, rconVars, parseVars, loopVars, reqVars>>

CodecNext ==
  \/ CodecEncode
  \/ CodecDecode

\* a read returns bytes whose size field is below 8: the size field, that
\* many bytes of an id and a type, and then the bytes of the next frame of the
\* stream if it came in the same read
CodecReceiveShort ==
  /\ cBuf = <<>>
  /\ \E sz \in 0..7, more \in BOOLEAN :
       cBuf' = LE32(sz)
                 \o SubSeq(LE32(cFrame.id) \o LE32(cFrame.type), 1, sz)
                 \o (IF more THEN EncodeFrame(cFrame.id, cFrame.type, cFrame.body)
                     ELSE <<>>)
  /\ UNCHANGED <<cFrame, cDec>>
  /\ UNCHANGED <<tickVars, rconVars, parseVars, loopVars, reqVars>>

ShortNext ==
  \/ CodecReceiveShort
  \/ CodecDecode

\* ------------------------------------- the status parser as a function
\* tokens between the identity and the address of a status line
MaxExtra == 2

NoLine == [slot |-> <<>>]
NotParsed == [done |-> FALSE]

\* the parts of a line "# <slot> <n> "<name>" <identity> <fields> <ip>:<port>":
\* slots of one and two digits, names with a blank, a "#" or a colon or
\* empty, identities with colons and the literal BOT, an address with or
\* without an ip, blanks or a tab between the tokens
LineParts ==
  [lead : {<<>>, <<" ">>},
   sep : {<<" ">>, <<" ", "\t">>},
   slot : {<<"3">>, <<"1", "2">>},
   name : {<<"a", "l">>, <<"a", " ", "#", "b">>, <<"a", ":", "1">>, <<>>},
   sid : {SidA, <<"B", "O", "T">>},
   extra : SeqsUpTo({<<"0", ":", "1">>, <<"4", "5">>}, MaxExtra),
   ip : {IpA, <<>>}]

RECURSIVE Tokens(_, _)
\* each token followed by the separator
Tokens(ts, sep) ==
  IF ts = <<>> THEN <<>> ELSE ts[1] \o sep \o Tokens(Tail(ts), sep)

\* the line written from its parts
PlayerLine(l) ==
  l.lead \o <<"#">> \o l.sep \o l.slot \o l.sep \o <<"1">> \o l.sep
    \o <<QUOTE>> \o l.name \o <<QUOTE>> \o l.sep \o l.sid \o l.sep
    \o Tokens(l.extra, l.sep) \o l.ip \o <<":", "9">>

ParseInit ==
  /\ pIn \in LineParts
  /\ pOut = NotParsed

\* bg_task.rs 51-90 on a status output of a header line and one player line
ParseStatus ==
  /\ ~pOut.done
  /\ pOut' = [done |-> TRUE,
              players |-> ParsePlayers(StatusHeader \o <<NL>> \o PlayerLine(pIn) \o <<"\r", NL>>)]
  /\ UNCHANGED pIn
  /\ UNCHANGED <<tickVars, rconVars, codecVars, loopVars, reqVars>>

ParseNext == ParseStatus

\* C12: a line of that shape whose identity is not BOT (and whose address has
\* an ip) yields exactly one player: the slot is the token right after "#",
\* the name is what stands between the quotes, the identity is the first
\* token after the name, and the ip is the last token up to its first colon.
C12_StatusLineParsed ==
  (pOut.done /\ pIn.sid # <<"B", "O", "T">> /\ pIn.ip # <<>>) =>
    /\ Len(pOut.players) = 1
    /\ pOut.players[1].userid = pIn.slot
    /\ pOut.players[1].name = pIn.name
    /\ pOut.players[1].steam_id = pIn.sid
    /\ pOut.players[1].ip = pIn.ip

\* C12 witness: a line with a two-digit slot, a name with a blank and a "#",
\* two more tokens and tabs between the tokens was parsed into its player
C12_Witness ==
  /\ pOut.done
  /\ pIn.slot = <<"1", "2">>
  /\ pIn.name = <<"a", " ", "#", "b">>
  /\ Len(pIn.extra) = 2
  /\ pIn.sep = <<" ", "\t">>
  /\ Len(pOut.players) = 1
  /\ pOut.players[1].userid = <<"1", "2">>

\* --------------------------------- the status parser on irregular lines
\* the parts of a line <pre>"<name>"<rest>: a "#" with and without a blank
\* after it, with one, two or no token behind it, or twice; names with double
\* quotes in them; a rest with and without an identity, an ip and more tokens
RawParts ==
  [pre : {<<"#", " ", "3", " ", "1", " ">>, <<"#", " ", "1", "2", " ">>,
          <<"#", "3", " ">>, <<"#">>, <<"#", " ">>,
          <<"#", " ", "#", " ", "3", " ">>, <<" ", "#", "7", " ", "8", " ">>},
   name : {<<"a", "l">>, <<"a", QUOTE, "b">>, <<>>,
           <<"a", QUOTE, " ">> \o SidX \o <<" ">> \o IpB \o <<":", "1", " ", QUOTE>>},
   rest : {<<" ">> \o SidA \o <<" ", "4", "5", " ">> \o IpA \o <<":", "9">>,
           <<" ", "B", "O", "T", " ">> \o IpA \o <<":", "9">>,
           <<" ">> \o SidA \o <<" ", ":", "9">>,
           <<" ">> \o SidA}]

\* the line written from these parts
RawLine(l) == l.pre \o <<QUOTE>> \o l.name \o <<QUOTE>> \o l.rest

\* bg_task.rs 51-90 on a status output of that one line
ParseRaw ==
  /\ ~pOut.done
  /\ pOut' = [done |-> TRUE, players |-> ParsePlayers(RawLine(pIn) \o <<NL>>)]
  /\ UNCHANGED pIn
  /\ UNCHANGED <<tickVars, rconVars, codecVars, loopVars, reqVars>>

RawNext == ParseRaw

\* the positions of the double quotes of a text
Quotes(s) == {i \in 1..Len(s) : s[i] = QUOTE}
FirstQuote(s) == CHOOSE i \in Quotes(s) : \A j \in Quotes(s) : i <= j
LastQuote(s) == CHOOSE i \in Quotes(s) : \A j \in Quotes(s) : j <= i
\* the tokens of a line before its first and after its last double quote
TokensBefore(s) == SplitWhitespace(SubSeq(s, 1, FirstQuote(s) - 1))
TokensAfter(s) == SplitWhitespace(SubSeq(s, LastQuote(s) + 1, Len(s)))
\* a token up to its first colon
UpToColon(t) ==
  IF \A i \in 1..Len(t) : t[i] # ":" THEN t
  ELSE SubSeq(t, 1, (CHOOSE i \in 1..Len(t) : t[i] = ":" /\ \A j \in 1..(i-1) : t[j] # ":") - 1)

\* a line of RawParts qualifies when the token taken for the slot is not "#",
\* two tokens or more follow the last double quote, the first of them is not
\* BOT and the last of them has an ip
Qualifies(s) ==
  LET pre == TokensBefore(s)
      post == TokensAfter(s)
  IN  /\ UserId(pre) # <<"#">>
      /\ Len(post) >= 2
      /\ post[1] # <<"B", "O", "T">>
      /\ UpToColon(post[Len(post)]) # <<>>

\* C21 as claimed: a qualifying line yields one player whose name is the text
\* between the first and the last double quote of the line, whose identity is
\* the first token after the last double quote and whose ip is the last token
\* up to its first colon, also when the name holds double quotes.
C21_NameBetweenFirstAndLastQuote ==
  (pOut.done /\ Qualifies(RawLine(pIn))) =>
    LET s == RawLine(pIn)
        post == TokensAfter(s)
    IN  /\ Len(pOut.players) = 1
        /\ pOut.players[1].name = SubSeq(s, FirstQuote(s) + 1, LastQuote(s) - 1)
        /\ pOut.players[1].steam_id = post[1]
        /\ pOut.players[1].ip = UpToColon(post[Len(post)])

\* C22 as claimed: the slot of a parsed player is the last token of the text
\* before the first double quote, and a line whose last token there is "#"
\* is skipped.
C22_SlotIsLastToken ==
  pOut.done =>
    LET pre == TokensBefore(RawLine(pIn))
    IN  /\ \A i \in DOMAIN pOut.players : pOut.players[i].userid = pre[Len(pre)]
        /\ pre[Len(pre)] = <<"#">> => pOut.players = <<>>

\* the token bg_task.rs 65-75 takes from the tokens before the name: the one
\* that follows the first token "#", and the last token when no token "#"
\* has a token behind it
SlotToken(pre) ==
  IF \E i \in 1..(Len(pre) - 1) : pre[i] = <<"#">>
  THEN LET i == CHOOSE k \in 1..(Len(pre) - 1) :
                  pre[k] = <<"#">> /\ \A j \in 1..(k - 1) : pre[j] # <<"#">>
       IN  pre[i + 1]
  ELSE pre[Len(pre)]

\* C22 amended: the slot of a parsed player is the token that follows the
\* first token "#" of the text before the first double quote, and the last
\* token of that text when no token "#" is followed by a token; the line is
\* skipped when the token so taken is "#"; it is never empty.
C22_SlotFollowsFirstHash ==
  pOut.done =>
    LET s == RawLine(pIn)
        pre == TokensBefore(s)
    IN  /\ pre # <<>>
        /\ \A i \in DOMAIN pOut.players :
             /\ pOut.players[i].userid = SlotToken(pre)
             /\ pOut.players[i].userid \notin {<<>>, <<"#">>}
        /\ SlotToken(pre) = <<"#">> => pOut.players = <<>>
        /\ (SlotToken(pre) # <<"#">> /\ Quotes(pIn.name) = {} /\ Qualifies(s)) =>
             Len(pOut.players) = 1

\* C22 witness: a line that begins with "#3", without a token "#", was parsed
\* into the player of slot "#3"
C22_Witness ==
  /\ pOut.done
  /\ pIn.pre = <<"#", "3", " ">>
  /\ Len(pOut.players) = 1
  /\ pOut.players[1].userid = <<"#", "3">>

\* ------------------------------------------------ the claims on RCON
\* the bytes the auth loop has read
AuthConsumed == IF fn = "send_command" /\ authenticated THEN authCut ELSE consumed

\* the frames of the server that decide the handshake and that the auth loop
\* has read to the last byte
DecisiveRead ==
  {i \in DOMAIN srvFrames :
     /\ srvFrames[i].type = TypeAuthResponse
     /\ srvFrames[i].id \in {-1, ReqId(fn)}
     /\ Ends(srvFrames)[i] <= AuthConsumed}

\* C7 as claimed: once the handshake of check_rcon or send_command has read
\* an auth-response frame (the first one with id -1 or the id sent), id -1
\* has made the call fail with the authentication error and the id sent has
\* made the handshake succeed, whatever the body of the frame.
C7_AuthResponseDecides ==
  DecisiveRead # {} =>
    LET f == srvFrames[Nth(DecisiveRead, 1)]
    IN  IF f.id = -1
        THEN phase = "done" /\ result = "err_auth_failed"
        ELSE IF fn = "check_rcon"
        THEN phase = "done" /\ result = "ok"
        ELSE authenticated

\* C23 as claimed: response-value frames before the auth-response frame
\* cause neither success nor failure of the handshake, and once the handshake
\* has read the auth-response frame that follows them (id -1 or the id sent)
\* that frame has decided its result.
C23_ValuesBeforeAuthResponseDiscarded ==
  /\ (\A k \in DOMAIN srvFrames : srvFrames[k].type = TypeResponseValue) =>
       /\ ~authenticated
       /\ result \notin {"ok", "err_auth_failed"}
  /\ \A i \in DOMAIN srvFrames :
       (/\ i > 1
        /\ \A k \in 1..(i - 1) : srvFrames[k].type = TypeResponseValue
        /\ srvFrames[i].type = TypeAuthResponse
        /\ srvFrames[i].id \in {-1, ReqId(fn)}
        /\ Ends(srvFrames)[i] <= AuthConsumed) =>
         IF srvFrames[i].id = -1
         THEN phase = "done" /\ result = "err_auth_failed"
         ELSE IF fn = "check_rcon"
         THEN phase = "done" /\ result = "ok"
         ELSE authenticated

\* C24: every call of send_command (and of check_rcon) ends, whatever the
\* server does: it refuses or never answers the connect, accepts and sends
\* nothing, sends frames for as long as it likes, closes or stays open. The
\* connect, the auth read and the response read each end at the latest when
\* their timer fires, so no call of the tick waits forever.
C24_EveryCallEnds == <>(phase = "done")

\* C24 witness: send_command ended by the timeout of the response read
\* after the server had sent all the frames it could and left the
\* connection open
C24_Witness ==
  /\ fn = "send_command"
  /\ phase = "done"
  /\ timedOut
  /\ ~srvClosed
  /\ Len(srvFrames) = MaxFrames
  /\ nreads >= 2

\* C30: when the server closes the connection after the handshake has
\* succeeded and the response read has received no byte, send_command returns
\* Ok with the empty string, and the loop finds no player in that output: no
\* pair of a player and an IP ban is left to evaluate, whatever the IP bans.
C30_ClosedWithoutBytesIsEmptyOk ==
  (/\ fn = "send_command" /\ phase = "done"
   /\ authenticated /\ Len(wire) = 2
   /\ srvClosed /\ gotBytes = 0 /\ ~timedOut) =>
    /\ result = "ok"
    /\ retText = <<>>
    /\ ParsePlayers(retText) = <<>>
    /\ NextMatch(ParsePlayers(retText), <<RowIp1, RowIp2>>, 1, 1) = <<0, 0>>

\* C30 witness: the server accepted the auth, got the command frame and
\* closed without a byte of response, and send_command has returned
C30_Witness ==
  /\ fn = "send_command" /\ phase = "done"
  /\ authenticated /\ Len(wire) = 2
  /\ srvClosed /\ gotBytes = 0 /\ ~timedOut
  /\ Len(srvFrames) = 1
  /\ result = "ok"

\* the offset at which frame i of the server's stream starts
StartOf(i) == IF i = 1 THEN 0 ELSE Ends(srvFrames)[i - 1]

RECURSIVE BodiesFrom(_)
\* the bodies, in order, of the frames from the i-th on that lie wholly
\* between the end of the handshake and the last byte read
BodiesFrom(i) ==
  IF i > Len(srvFrames) THEN <<>>
  ELSE (IF StartOf(i) >= authCut /\ Ends(srvFrames)[i] <= consumed
        THEN srvFrames[i].body ELSE <<>>) \o BodiesFrom(i + 1)

\* C8 as claimed: a frame that arrives split across reads is decoded once and
\* whole, and no byte is dropped: no read makes send_command panic, and after
\* a handshake that ended at a frame boundary the text it has accumulated is
\* the bodies of exactly the frames read to their last byte.
C8_SplitFrameDecodedOnce ==
  fn = "send_command" =>
    /\ result # "panic"
    /\ (authenticated /\ \E i \in DOMAIN srvFrames : Ends(srvFrames)[i] = authCut)
         => response_data = BodiesFrom(1)

\* the auth-response frames with this id of which the auth loop has read the
\* size, id and type fields
AuthResponsesRead(id) ==
  {i \in DOMAIN srvFrames :
     /\ srvFrames[i].type = TypeAuthResponse
     /\ srvFrames[i].id = id
     /\ StartOf(i) + 12 <= AuthConsumed}

\* C16: the handshake reports the authentication failure only after it has
\* read an auth-response frame with id -1; it ends with the timeout error,
\* which is another error, only while it is not authenticated, and when every
\* read gave it whole frames, only if none of them was an auth-response frame
\* with id -1 or the id sent.
C16_TimeoutIsNotAuthFailed ==
  /\ result = "err_auth_failed" => (phase = "done" /\ AuthResponsesRead(-1) # {})
  /\ result = "err_auth_timeout" =>
       /\ phase = "done"
       /\ ~authenticated
       /\ AuthResponsesRead(-1) = {} \/ ~aligned
       /\ aligned => DecisiveRead = {}

\* C16 witness: the auth window ran out after the handshake had read a whole
\* response-value frame and no auth-response frame
C16_Witness ==
  /\ result = "err_auth_timeout"
  /\ aligned
  /\ consumed > 0
  /\ srvFrames # <<>>
  /\ \A i \in DOMAIN srvFrames : srvFrames[i].type = TypeResponseValue

RECURSIVE MatchingBodiesFrom(_)
\* the bodies, in order, of the response-value frames with the id of the
\* command, from the i-th frame on, that lie wholly between the end of the
\* handshake and the last byte read
MatchingBodiesFrom(i) ==
  IF i > Len(srvFrames) THEN <<>>
  ELSE (IF /\ StartOf(i) >= authCut /\ Ends(srvFrames)[i] <= consumed
           /\ srvFrames[i].type = TypeResponseValue
           /\ srvFrames[i].id = CmdId
        THEN srvFrames[i].body ELSE <<>>) \o MatchingBodiesFrom(i + 1)

\* C17 as claimed, for reads that each end at a frame boundary: the text
\* send_command returns is the bodies of the received response-value frames
\* with the id of the command frame, in the order of arrival, and of no other
\* frame.
C17_OnlyMatchingBodies ==
  (fn = "send_command" /\ phase = "done" /\ result = "ok" /\ aligned) =>
    retText = MatchingBodiesFrom(1)

\* C18: send_command writes the command frame only after the handshake has
\* read an auth-response frame with the id of the Auth frame, and writes
\* nothing after it; a call that failed to connect has written nothing, and
\* one that failed in the handshake has written the Auth frame only.
C18_CommandOnlyAfterAuth ==
  /\ Len(wire) <= 2
  /\ wire # <<>> => wire[1] = EncodeFrame(ReqId(fn), TypeAuth, Password)
  /\ Len(wire) = 2 =>
       /\ fn = "send_command"
       /\ authenticated
       /\ wire[2] = EncodeFrame(CmdId, TypeExecCommand, Command)
       /\ AuthResponsesRead(SendReqId) # {}
  /\ result \in {"err_connect_timeout", "err_connect"} =>
       (phase = "done" /\ wire = <<>>)
  /\ result \in {"err_auth_failed", "err_auth_timeout", "err_closed", "err_io"} =>
       (phase = "done" /\ Len(wire) = 1 /\ ~authenticated)
  /\ result = "err_write" => (phase = "done" /\ Len(wire) <= 1)

\* C18 witness: the command frame was written after an auth-response frame
\* with the id sent, which came after a response-value frame
C18_Witness ==
  /\ fn = "send_command"
  /\ Len(wire) = 2
  /\ Len(srvFrames) = 2
  /\ srvFrames[1].type = TypeResponseValue
  /\ srvFrames[2] = [id |-> SendReqId, type |-> TypeAuthResponse, body |-> <<>>]

\* C9: decoding the bytes of an encoded (id, type, body) whose body holds no
\* null byte gives back that id, type and body, and consumes all the bytes.
C9_RoundTrip ==
  (cDec.st # "none" /\ \A i \in DOMAIN cFrame.body : cFrame.body[i] # 0) =>
    /\ cDec.st = "frame"
    /\ cDec.id = cFrame.id
    /\ cDec.type = cFrame.type
    /\ cDec.body = cFrame.body
    /\ cDec.consumed = Len(cBuf)

\* C9 witness: a frame with a negative id and a body of two bytes was encoded
\* and decoded
C9_Witness ==
  /\ cDec.st = "frame"
  /\ cFrame.id = -1
  /\ cFrame.body = <<97, 98>>
  /\ cDec.body = <<97, 98>>

\* C11 as claimed: received bytes whose size field is below 8 are rejected as
\* malformed: decoding them neither panics (which a read past the received
\* bytes does) nor yields a frame.
C11_ShortSizeRejected ==
  (cBuf # <<>> /\ ReadI32(cBuf, 0) < 8 /\ cDec.st # "none") =>
    cDec.st \notin {"panic", "frame"}

\* C14: the bytes of an encoded frame (the Auth frame and the command frame
\* are written this way) start with a size field of 8 + len(body) + 2, hold
\* the id, the type and the body, end with two null bytes, and are size + 4
\* bytes long.
C14_FrameSizeField ==
  cBuf # <<>> =>
    LET size == ReadI32(cBuf, 0)
        n == Len(cFrame.body)
    IN  /\ size = 8 + n + 2
        /\ Len(cBuf) = size + 4
        /\ ReadI32(cBuf, 4) = cFrame.id
        /\ ReadI32(cBuf, 8) = cFrame.type
        /\ SubSeq(cBuf, 13, 12 + n) = cFrame.body
        /\ SubSeq(cBuf, 13 + n, Len(cBuf)) = <<0, 0>>

\* C14 witness: an Auth frame with a body of two bytes was encoded
C14_Witness ==
  /\ cFrame.type = TypeAuth
  /\ cFrame.id = CheckReqId
  /\ Len(cFrame.body) = 2
  /\ Len(cBuf) = 16

\* C15 as claimed: a body with an embedded null byte is not encoded: the
\* encoder fails and no byte is written.
C15_NullBodyNotEncoded ==
  (\E i \in DOMAIN cFrame.body : cFrame.body[i] = 0) => cBuf = <<>>

vars == <<tickVars, rconVars, codecVars, parseVars, loopVars, reqVars>>

\* the enforcement loop; no RCON call and no codec run is looked into
Init ==
  /\ TickInit
  /\ fn = "send_command" /\ build = "release" /\ phase = "idle"
  /\ srvOut = <<>> /\ srvClosed = FALSE /\ wire = <<>>
  /\ authenticated = FALSE /\ response_data = <<>>
  /\ result = "none" /\ retText = <<>> /\ nreads = 0
  /\ srvFrames = <<>> /\ consumed = 0 /\ authCut = 0
  /\ aligned = TRUE /\ gotBytes = 0 /\ timedOut = FALSE
  /\ cFrame = [id |-> 0, type |-> 0, body |-> <<>>]
  /\ cBuf = <<>>
  /\ cDec = [st |-> "none"]
  /\ pIn = NoLine
  /\ pOut = NotParsed
  /\ logged = 0
  /\ req = NoRequest
  /\ adminLog = <<>>

Next == TickNext

Spec == Init /\ [][Next]_vars

\* the loop with its ticker and its log: interval.tick() of bg_task.rs 12-15
\* fires again
LiveNext ==
  \/ LoopIteration
  \/ LoadIpBans
  \/ LoadServers
  \/ QueryStatus
  \/ Lookup
  \/ Kick
  \/ InsertBan
  \/ SmBan

\* the stores the loop with its log starts from: one active IP ban, with and
\* without an active account ban
LiveStores == {{RowIp1, RowOld}, {RowIp1, RowAcc, RowOld}}

InitLive ==
  /\ bans \in LiveStores
  /\ nextId = FirstFreeId(bans)
  /\ pc = "idle"
  /\ ticks = 0
  /\ ip_bans = <<>>
  /\ servers = <<>>
  /\ sidx = 0
  /\ players = <<>>
  /\ lidx = 0
  /\ bidx = 0
  /\ tickResult = "none"
  /\ cmdLog = <<>>
  /\ insertLog = <<>>
  /\ listLog = <<>>
  /\ startActive = {}
  /\ startIpBans = <<>>
  /\ readLog = <<>>
  /\ skipLog = {}
  /\ fn = "send_command" /\ build = "release" /\ phase = "idle"
  /\ srvOut = <<>> /\ srvClosed = FALSE /\ wire = <<>>
  /\ authenticated = FALSE /\ response_data = <<>>
  /\ result = "none" /\ retText = <<>> /\ nreads = 0
  /\ srvFrames = <<>> /\ consumed = 0 /\ authCut = 0
  /\ aligned = TRUE /\ gotBytes = 0 /\ timedOut = FALSE
  /\ cFrame = [id |-> 0, type |-> 0, body |-> <<>>]
  /\ cBuf = <<>>
  /\ cDec = [st |-> "none"]
  /\ pIn = NoLine
  /\ pOut = NotParsed
  /\ logged = 0
  /\ req = NoRequest
  /\ adminLog = <<>>

SpecLive == InitLive /\ [][LiveNext]_vars /\ WF_vars(LoopIteration)

\* the stores of the loop next to the requests: one active IP ban, with and
\* without an expires_at
ConcStores == {{RowIp1, RowOld}, {RowIp2, RowOld}}

\* the last tick of the loop, the check_ban requests and the administrator
InitConc ==
  /\ bans \in ConcStores
  /\ nextId = FirstFreeId(bans)
  /\ pc = "idle"
  /\ ticks = MaxTicks - 1
  /\ ip_bans = <<>>
  /\ servers = <<>>
  /\ sidx = 0
  /\ players = <<>>
  /\ lidx = 0
  /\ bidx = 0
  /\ tickResult = "none"
  /\ cmdLog = <<>>
  /\ insertLog = <<>>
  /\ listLog = <<>>
  /\ startActive = {}
  /\ startIpBans = <<>>
  /\ readLog = <<>>
  /\ skipLog = {}
  /\ fn = "send_command" /\ build = "release" /\ phase = "idle"
  /\ srvOut = <<>> /\ srvClosed = FALSE /\ wire = <<>>
  /\ authenticated = FALSE /\ response_data = <<>>
  /\ result = "none" /\ retText = <<>> /\ nreads = 0
  /\ srvFrames = <<>> /\ consumed = 0 /\ authCut = 0
  /\ aligned = TRUE /\ gotBytes = 0 /\ timedOut = FALSE
  /\ cFrame = [id |-> 0, type |-> 0, body |-> <<>>]
  /\ cBuf = <<>>
  /\ cDec = [st |-> "none"]
  /\ pIn = NoLine
  /\ pOut = NotParsed
  /\ logged = 0
  /\ req = NoRequest
  /\ adminLog = <<>>

SpecConc == InitConc /\ [][ConcNext]_vars

\* one call of check_rcon or send_command
InitRcon ==
  /\ RconInit
  /\ bans = {} /\ nextId = 1 /\ pc = "idle" /\ ticks = 0
  /\ ip_bans = <<>> /\ servers = <<>> /\ sidx = 0
  /\ players = <<>> /\ lidx = 0 /\ bidx = 0 /\ tickResult = "none"
  /\ cmdLog = <<>> /\ insertLog = <<>> /\ listLog = <<>>
  /\ startActive = {} /\ startIpBans = <<>>
  /\ readLog = <<>> /\ skipLog = {}
  /\ cFrame = [id |-> 0, type |-> 0, body |-> <<>>]
  /\ cBuf = <<>>
  /\ cDec = [st |-> "none"]
  /\ pIn = NoLine
  /\ pOut = NotParsed
  /\ logged = 0
  /\ req = NoRequest
  /\ adminLog = <<>>

SpecRcon == InitRcon /\ [][RconNext]_vars

\* the same calls with the timers of tokio::time::timeout: the connect
\* (rcon.rs 100-105), the write of a frame and the two timed reads (130-166,
\* 192-251) do not wait forever
SpecRconLive ==
  /\ InitRcon
  /\ [][RconNext]_vars
  /\ WF_vars(Connect)
  /\ WF_vars(AuthTimeout)
  /\ WF_vars(SendCmd)
  /\ WF_vars(CmdTimeout)

\* encoding and decoding one frame
InitCodec ==
  /\ CodecInit
  /\ bans = {} /\ nextId = 1 /\ pc = "idle" /\ ticks = 0
  /\ ip_bans = <<>> /\ servers = <<>> /\ sidx = 0
  /\ players = <<>> /\ lidx = 0 /\ bidx = 0 /\ tickResult = "none"
  /\ cmdLog = <<>> /\ insertLog = <<>> /\ listLog = <<>>
  /\ startActive = {} /\ startIpBans = <<>>
  /\ readLog = <<>> /\ skipLog = {}
  /\ fn = "send_command" /\ build = "release" /\ phase = "idle"
  /\ srvOut = <<>> /\ srvClosed = FALSE /\ wire = <<>>
  /\ authenticated = FALSE /\ response_data = <<>>
  /\ result = "none" /\ retText = <<>> /\ nreads = 0
  /\ srvFrames = <<>> /\ consumed = 0 /\ authCut = 0
  /\ aligned = TRUE /\ gotBytes = 0 /\ timedOut = FALSE
  /\ pIn = NoLine
  /\ pOut = NotParsed
  /\ logged = 0
  /\ req = NoRequest
  /\ adminLog = <<>>

SpecCodec == InitCodec /\ [][CodecNext]_vars

\* parsing one status output
InitParse ==
  /\ ParseInit
  /\ bans = {} /\ nextId = 1 /\ pc = "idle" /\ ticks = 0
  /\ ip_bans = <<>> /\ servers = <<>> /\ sidx = 0
  /\ players = <<>> /\ lidx = 0 /\ bidx = 0 /\ tickResult = "none"
  /\ cmdLog = <<>> /\ insertLog = <<>> /\ listLog = <<>>
  /\ startActive = {} /\ startIpBans = <<>>
  /\ readLog = <<>> /\ skipLog = {}
  /\ fn = "send_command" /\ build = "release" /\ phase = "idle"
  /\ srvOut = <<>> /\ srvClosed = FALSE /\ wire = <<>>
  /\ authenticated = FALSE /\ response_data = <<>>
  /\ result = "none" /\ retText = <<>> /\ nreads = 0
  /\ srvFrames = <<>> /\ consumed = 0 /\ authCut = 0
  /\ aligned = TRUE /\ gotBytes = 0 /\ timedOut = FALSE
  /\ cFrame = [id |-> 0, type |-> 0, body |-> <<>>]
  /\ cBuf = <<>>
  /\ cDec = [st |-> "none"]
  /\ logged = 0
  /\ req = NoRequest
  /\ adminLog = <<>>

SpecParse == InitParse /\ [][ParseNext]_vars

\* the status parser on irregular lines
InitRaw ==
  /\ pIn \in RawParts
  /\ pOut = NotParsed
  /\ bans = {} /\ nextId = 1 /\ pc = "idle" /\ ticks = 0
  /\ ip_bans = <<>> /\ servers = <<>> /\ sidx = 0
  /\ players = <<>> /\ lidx = 0 /\ bidx = 0 /\ tickResult = "none"
  /\ cmdLog = <<>> /\ insertLog = <<>> /\ listLog = <<>>
  /\ startActive = {} /\ startIpBans = <<>>
  /\ readLog = <<>> /\ skipLog = {}
  /\ fn = "send_command" /\ build = "release" /\ phase = "idle"
  /\ srvOut = <<>> /\ srvClosed = FALSE /\ wire = <<>>
  /\ authenticated = FALSE /\ response_data = <<>>
  /\ result = "none" /\ retText = <<>> /\ nreads = 0
  /\ srvFrames = <<>> /\ consumed = 0 /\ authCut = 0
  /\ aligned = TRUE /\ gotBytes = 0 /\ timedOut = FALSE
  /\ cFrame = [id |-> 0, type |-> 0, body |-> <<>>]
  /\ cBuf = <<>>
  /\ cDec = [st |-> "none"]
  /\ logged = 0
  /\ req = NoRequest
  /\ adminLog = <<>>

SpecRaw == InitRaw /\ [][RawNext]_vars

\* decoding received bytes whose size field is below 8
SpecShort == InitCodec /\ [][ShortNext]_vars

\* ------------------------------------------- the claims on the ticker
\* C25: a tick starts only when no tick runs (none has started yet, or the
\* last one has run to its end or was aborted), and within a tick the servers
\* are taken one at a time in their order, and the players of a server one at
\* a time in the order of their lines.
C25_TicksDoNotOverlap ==
  [][/\ ticks' # ticks =>
          (pc \in {"idle", "done"} /\ ticks' = ticks + 1 /\ pc' = "load_bans")
     /\ ticks' = ticks =>
          /\ pc # "done"
          /\ sidx' \in {sidx, sidx + 1}
          /\ sidx' = sidx + 1 => pc' \in {"query", "lookup", "done"}
          /\ (sidx' = sidx /\ lidx' # 0) => lidx' >= lidx
          /\ pc' \in {"kick", "insert", "sm_ban"} =>
               (sidx' = sidx /\ lidx' = lidx /\ bidx' = bidx)]_vars

\* C25 witness: the second tick evaluates a player after the first tick has
\* run to its end and inserted a row
C25_Witness ==
  /\ ticks = 2
  /\ pc = "kick"
  /\ \E r \in bans : r.admin_name = "System (BG Monitor)"

SystemBans(sid) ==
  {r \in bans : /\ r.steam_id = sid
                /\ r.status = "active"
                /\ r.ban_type = "account"
                /\ r.admin_name \in {"System (BG Monitor)", "System (IP Match)"}}

\* C28 as claimed: whatever the interleaving of the loop with check_ban
\* requests, no identity has two active account bans made by the system.
C28_OneSystemBanPerIdentity ==
  \A sid \in RequestIds : Cardinality(SystemBans(sid)) <= 1

\* the IP ban the loop is acting on is an active row of the store
SourceBanActive ==
  \E r \in bans : r.id = ip_bans[bidx].id /\ r.status = "active"

\* C29 as claimed: a step of the tick that inserts an evasion ban or sends a
\* ban command is derived from an IP ban that, at that step, is still a row
\* of the store with status active: none follows the committed deletion or
\* status change of its IP ban.
C29_NoActionAfterRemoval ==
  [][/\ (Len(insertLog') > Len(insertLog) /\ insertLog'[Len(insertLog')].ok) =>
          SourceBanActive
     /\ (Len(cmdLog') > Len(cmdLog) /\ cmdLog'[Len(cmdLog')].kind = "sm_ban") =>
          SourceBanActive]_vars

====
